---- MODULE Spec2Model ----
(***************************************************************************)
(* Model of the Podcast Quiz Generator (src/main.py): the Streamlit script *)
(* main() with its session state, the download / upload / transcribe       *)
(* stages with the polling loop of transcribe_audio, and the text          *)
(* heuristics extract_key_topics and generate_questions_from_text.         *)
(*                                                                         *)
(* A Python str is a sequence of one-character strings.  An Optional value *)
(* is a sequence of length 0 (None) or 1 (the value).                      *)
(***************************************************************************)
EXTENDS Integers, Sequences, FiniteSets, TLC

VARIABLES
    \* ---- the Streamlit application -------------------------------------
    pc,              \* position of the script run inside main()
    has_key,         \* "ASSEMBLYAI_API_KEY" in st.secrets
    event,           \* the widget whose interaction triggered this rerun
    youtube_url,     \* value of the text input
    audio_file,      \* local of main: result of download_audio
    upload_url,      \* local of main: result of upload_audio
    transcript,      \* st.session_state.transcript
    quiz_questions,  \* st.session_state.quiz_questions
    show_answers,    \* st.session_state.show_answers (a dict: idx -> bool)
    file_exists,     \* os.path.exists("podcast_audio.mp3")
    stages,          \* the stage functions called so far in this run
    posts,           \* POST /v2/transcript requests sent by this call
    transcript_id,   \* local of transcribe_audio
    polled_id,       \* id in the URL of the last GET of this call
    polls,           \* GET requests sent by this call (saturating)
    status_response, \* local of transcribe_audio: the last poll response
    ret,             \* value returned by transcribe_audio
    buttons,         \* indices whose "Show Answer" button is on the page
    shown,           \* indices whose answer block is on the page
    process_button,  \* the "Process Podcast" button is on the page
    \* ---- the text heuristics, applied to drawn inputs ------------------
    text,            \* argument of the function under study
    num_topics,      \* argument num_topics of extract_key_topics
    topics,          \* result of extract_key_topics(text, num_topics)
    questions,       \* result of generate_questions_from_text(text)
    fpc              \* which of the two functions have been applied

appVars == << pc, has_key, event, youtube_url, audio_file, upload_url,
              transcript, quiz_questions, show_answers, file_exists, stages,
              posts, transcript_id, polled_id, polls, status_response, ret,
              buttons, shown, process_button >>

textVars == << text, num_topics, topics, questions, fpc >>

vars == << pc, has_key, event, youtube_url, audio_file, upload_url,
           transcript, quiz_questions, show_answers, file_exists, stages,
           posts, transcript_id, polled_id, polls, status_response, ret,
           buttons, shown, process_button, text, num_topics, topics, questions, fpc >>

----------------------------------------------------------------------------
(* Bounds of the model                                                     *)

MaxFrags == 3        \* a drawn text is made of at most MaxFrags fragments
MaxNumTopics == 3    \* num_topics is drawn from 0..MaxNumTopics
MaxPolls == 3        \* the poll counter saturates at MaxPolls
MaxIds == 2          \* the service hands out transcript ids 1..MaxIds

----------------------------------------------------------------------------
(* Python values                                                           *)

None == << >>
Some(v) == << v >>
IsNone(o) == Len(o) = 0

Min(a, b) == IF a < b THEN a ELSE b

\* s[:k]
Slice(s, k) == SubSeq(s, 1, Min(k, Len(s)))

UpperCase ==
    <<"A","B","C","D","E","F","G","H","I","J","K","L","M","N","O","P","Q","R","S","T","U","V","W","X","Y","Z">>
LowerCase ==
    <<"a","b","c","d","e","f","g","h","i","j","k","l","m","n","o","p","q","r","s","t","u","v","w","x","y","z">>
Digits ==
    <<"0","1","2","3","4","5","6","7","8","9">>

Range(s) == { s[i] : i \in 1..Len(s) }

WordChars == Range(UpperCase) \cup Range(LowerCase) \cup Range(Digits) \cup {"_"}

\* \w of the re module (ASCII part)
IsWordChar(c) == c \in WordChars

\* \s of the re module, and the separators of str.split() and str.strip()
IsSpace(c) == c \in {" ", "\n", "\t"}

LowerChar(c) ==
    IF c \in Range(UpperCase)
    THEN LowerCase[CHOOSE i \in 1..Len(UpperCase) : UpperCase[i] = c]
    ELSE c

\* str.lower()
lower(s) == [i \in 1..Len(s) |-> LowerChar(s[i])]

\* the elements of a set of integers in increasing order
Sorted(S) ==
    [k \in 1..Cardinality(S) |->
        CHOOSE i \in S : Cardinality({ j \in S : j < i }) = k - 1]

\* str.split(): split on runs of whitespace, no empty strings
split(s) ==
    LET starts == { i \in 1..Len(s) : ~IsSpace(s[i]) /\ (i = 1 \/ IsSpace(s[i - 1])) }
        ends   == { i \in 1..Len(s) : ~IsSpace(s[i]) /\ (i = Len(s) \/ IsSpace(s[i + 1])) }
        from   == Sorted(starts)
        to     == Sorted(ends)
    IN  [k \in 1..Len(from) |-> SubSeq(s, from[k], to[k])]

\* str.split(d): split at every occurrence of the character d, keeping empty strings
split_on(s, d) ==
    LET at == Sorted({ i \in 1..Len(s) : s[i] = d })
    IN  [k \in 1..(Len(at) + 1) |->
            SubSeq(s,
                   IF k = 1 THEN 1 ELSE at[k - 1] + 1,
                   IF k = Len(at) + 1 THEN Len(s) ELSE at[k] - 1)]

\* ' '.join(words)
RECURSIVE join(_)
join(words) ==
    IF Len(words) = 0 THEN << >>
    ELSE IF Len(words) = 1 THEN words[1]
    ELSE words[1] \o <<" ">> \o join(Tail(words))

\* str.strip()
strip(s) ==
    LET keep == { i \in 1..Len(s) : ~IsSpace(s[i]) }
    IN  IF keep = {} THEN << >>
        ELSE LET first == CHOOSE i \in keep : \A j \in keep : i <= j
                 last  == CHOOSE i \in keep : \A j \in keep : j <= i
             IN  SubSeq(s, first, last)

\* sub in s
contains(sub, s) ==
    \E i \in 0..(Len(s) - Len(sub)) : SubSeq(s, i + 1, i + Len(sub)) = sub

----------------------------------------------------------------------------
(* preprocess_text and extract_key_topics                                  *)

\* re.sub(r'[^\w\s]', '', text.lower()), then ' '.join(text.split())
preprocess_text(t) ==
    LET lowered  == lower(t)
        stripped == SelectSeq(lowered, LAMBDA c : IsWordChar(c) \/ IsSpace(c))
    IN  join(split(stripped))

stop_words ==
    { <<"t","h","e">>,
      <<"a">>,
      <<"a","n">>,
      <<"a","n","d">>,
      <<"o","r">>,
      <<"b","u","t">>,
      <<"i","n">>,
      <<"o","n">>,
      <<"a","t">>,
      <<"t","o">>,
      <<"f","o","r">>,
      <<"i","s">>,
      <<"a","r","e">>,
      <<"w","a","s">>,
      <<"w","e","r","e">> }

MinWordLen == 3      \* a word counts only if len(word) > MinWordLen

\* words = [word for word in words if word not in stop_words and len(word) > 3]
filter_words(words) ==
    SelectSeq(words, LAMBDA w : w \notin stop_words /\ Len(w) > MinWordLen)

\* Counter(words): the distinct words in order of first occurrence, each
\* with its number of occurrences
RECURSIVE CounterFrom(_, _, _)
CounterFrom(words, i, acc) ==
    IF i > Len(words) THEN acc
    ELSE IF \E k \in 1..Len(acc) : acc[k][1] = words[i]
         THEN CounterFrom(words, i + 1,
                          [k \in 1..Len(acc) |->
                              IF acc[k][1] = words[i]
                              THEN << acc[k][1], acc[k][2] + 1 >>
                              ELSE acc[k]])
         ELSE CounterFrom(words, i + 1, Append(acc, << words[i], 1 >>))

Counter(words) == CounterFrom(words, 1, << >>)

RemoveAt(s, i) == SubSeq(s, 1, i - 1) \o SubSeq(s, i + 1, Len(s))

\* a wrong most_common: among equally frequent words the last one wins
RECURSIVE most_common_last_wins(_, _)
most_common_last_wins(items, n) ==
    IF n <= 0 \/ Len(items) = 0 THEN << >>
    ELSE LET best == CHOOSE i \in 1..Len(items) :
                        /\ \A j \in 1..Len(items) : items[j][2] <= items[i][2]
                        /\ \A j \in 1..Len(items) : items[j][2] = items[i][2] => j <= i
         IN  << items[best] >> \o most_common_last_wins(RemoveAt(items, best), n - 1)

\* Counter.most_common(n): heapq.nlargest(n, items, key=count), that is
\* sorted(items, key=count, reverse=True)[:n]; the sort is stable
RECURSIVE most_common(_, _)
most_common(items, n) ==
    IF n <= 0 \/ Len(items) = 0 THEN << >>
    ELSE LET best == CHOOSE i \in 1..Len(items) :
                        /\ \A j \in 1..Len(items) : items[j][2] <= items[i][2]
                        /\ \A j \in 1..Len(items) : items[j][2] = items[i][2] => i <= j
         IN  << items[best] >> \o most_common(RemoveAt(items, best), n - 1)

extract_key_topics(t, n) ==
    LET cleaned_text == preprocess_text(t)
        words        == filter_words(split(cleaned_text))
        word_freq    == Counter(words)
        common       == most_common(word_freq, n)
    IN  [i \in 1..Len(common) |-> common[i][1]]

----------------------------------------------------------------------------
(* generate_questions_from_text                                            *)

MinSentenceLen == 20     \* a sentence counts only if len(s.strip()) > 20
SentenceSlice == 100     \* [:100] of a quoted sentence or paragraph
SegmentSlice == 50       \* [:50] of a sentence quoted by a filler question
MinQuestions == 3        \* the filler loop runs while len(questions) < 3
NumTopicsDefault == 3    \* num_topics=3

\* a question item; the f-strings are kept as the template and the values
\* interpolated into it
Item(qtemplate, qarg, type, atemplate, aargs, context) ==
    [ question |-> [template |-> qtemplate, arg |-> qarg],
      type     |-> type,
      answer   |-> [template |-> atemplate, args |-> aargs],
      context  |-> context ]

\* paragraphs = [p.strip() for p in transcript.split('\n') if p.strip()]
paragraphs_of(t) ==
    LET parts == split_on(t, "\n")
        kept  == SelectSeq(parts, LAMBDA p : Len(strip(p)) > 0)
    IN  [i \in 1..Len(kept) |-> strip(kept[i])]

\* sentences = [s.strip() for s in transcript.split('.') if len(s.strip()) > 20]
sentences_of(t) ==
    LET parts == split_on(t, ".")
        kept  == SelectSeq(parts, LAMBDA s : Len(strip(s)) > MinSentenceLen)
    IN  [i \in 1..Len(kept) |-> strip(kept[i])]

\* key_topics[1:3]
other_topics(key_topics) == SubSeq(key_topics, 2, Min(3, Len(key_topics)))

\* 1. Main Topic Question
main_topic_question(key_topics) ==
    IF Len(key_topics) > 0
    THEN << Item("main topic related to", key_topics[1], "short_answer",
                 "main topic in context of", << key_topics[1] >> \o other_topics(key_topics),
                 "main topic") >>
    ELSE << >>

\* 2. Key Concepts Questions
key_concept_question(sentences) ==
    IF Len(sentences) >= 2
    THEN << Item("true or false statement", Slice(sentences[2], SentenceSlice), "true_false",
                 "True", << >>, "concept verification") >>
    ELSE << >>

\* 3. Detailed Questions
RECURSIVE detail_questions(_, _)
detail_questions(tps, sentences) ==
    IF Len(tps) = 0 THEN << >>
    ELSE LET topic == Head(tps)
             relevant_sentences == SelectSeq(sentences, LAMBDA s : contains(topic, lower(s)))
             here == IF Len(relevant_sentences) > 0
                     THEN << Item("key point about", topic, "short_answer",
                                  "quote", << Slice(relevant_sentences[1], SentenceSlice) >>,
                                  "specific detail") >>
                     ELSE << >>
         IN  here \o detail_questions(Tail(tps), sentences)

\* 4. Summary Question
summary_question(paragraphs) ==
    IF Len(paragraphs) > 0
    THEN << Item("best summary", << >>, "multiple_choice",
                 "quote", << Slice(paragraphs[1], SentenceSlice) >>, "summary") >>
    ELSE << >>

\* while len(questions) < 3 and sentences: questions.append(... sentences.pop() ...)
RECURSIVE fill_questions(_, _, _)
fill_questions(qs, sentences, key_topics) ==
    IF Len(qs) < MinQuestions /\ Len(sentences) > 0
    THEN fill_questions(
             Append(qs, Item("segment", Slice(sentences[Len(sentences)], SegmentSlice),
                             "short_answer",
                             IF Len(key_topics) > 0 THEN "segment discusses"
                                                    ELSE "key concepts from the transcript",
                             IF Len(key_topics) > 0 THEN << key_topics[1] >> ELSE << >>,
                             "general understanding")),
             SubSeq(sentences, 1, Len(sentences) - 1), key_topics)
    ELSE qs

generate_questions_from_text(t) ==
    IF Len(t) = 0 THEN << >>
    ELSE LET paragraphs == paragraphs_of(t)
             sentences  == sentences_of(t)
             key_topics == extract_key_topics(t, NumTopicsDefault)
             qs == main_topic_question(key_topics)
                   \o key_concept_question(sentences)
                   \o detail_questions(other_topics(key_topics), sentences)
                   \o summary_question(paragraphs)
         IN  fill_questions(qs, sentences, key_topics)

----------------------------------------------------------------------------
(* The text heuristics applied to drawn texts                              *)

Fragments ==
    { <<"d","a","t","a"," ">>,
      <<"D","a","t","a","."," ">>,
      <<"m","o","-","d","e","l",","," ">>,
      <<"m","o","d","e","l"," ">>,
      <<"t","h","e"," ","c","a","t"," ">>,
      <<"M","o","d","e","l","s"," ","w","e","r","e"," ","t","r","a","i","n","e","d"," ","o","n"," ","d","a","t","a","."," ">>,
      <<"\n">> }

RECURSIVE Concat(_)
Concat(fs) == IF Len(fs) = 0 THEN << >> ELSE Head(fs) \o Concat(Tail(fs))

\* every text made of at most MaxFrags fragments
Texts == { Concat(fs) : fs \in UNION { [1..k -> Fragments] : k \in 0..MaxFrags } }

----------------------------------------------------------------------------
(* The Streamlit application: one script run of main() per interaction     *)

Urls == { "", "https://youtu.be/podcast" }

\* the transcripts the speech-to-text service may answer with
AppTexts ==
    { Concat(<< <<"t","h","e"," ","c","a","t"," ">> >>),
      Concat(<< <<"\n">> >>),
      Concat(<< <<"M","o","d","e","l","s"," ","w","e","r","e"," ","t","r","a","i","n","e","d"," ","o","n"," ","d","a","t","a","."," ">> >>) }

Statuses == { "queued", "processing", "completed", "failed", "error" }

\* what a GET of the transcript can produce: a JSON body with a status and
\* a text, or a failure (the request raises, the HTTP status is an error,
\* or the body lacks a key)
PollResponses ==
    { [ok |-> TRUE, status |-> st, text |-> tx] :
          st \in Statuses, tx \in {None, Some(<< >>)} \cup { Some(t) : t \in AppTexts } }
    \cup { [ok |-> FALSE, status |-> "", text |-> None] }

Widget(w, i) == [widget |-> w, idx |-> i]

EmptyDict == [i \in {} |-> FALSE]

\* bool(s) of an Optional str held as a TLA+ string
TruthyStr(o) == ~IsNone(o) /\ o[1] # ""

\* bool(x) of an Optional str or list held as a sequence
TruthySeq(o) == ~IsNone(o) /\ Len(o[1]) > 0

\* show_answers.get(i)
Revealed(d, i) == i \in DOMAIN d /\ d[i] = TRUE

\* lines 161-166, and the first script run of the session
AppInit ==
    /\ pc = "secrets"
    /\ has_key \in BOOLEAN
    /\ event = Widget("none", 0)
    /\ youtube_url = ""
    /\ audio_file = None
    /\ upload_url = None
    /\ transcript = None
    /\ quiz_questions = None
    /\ show_answers = EmptyDict
    /\ file_exists = FALSE
    /\ stages = << >>
    /\ posts = 0
    /\ transcript_id = 0
    /\ polled_id = 0
    /\ polls = 0
    /\ status_response = None
    /\ ret = None
    /\ buttons = {}
    /\ shown = {}
    /\ process_button = FALSE

\* a return of main() before the quiz is rendered: the elements of the
\* previous run that this run did not emit leave the page
ReturnEarly ==
    /\ pc' = "idle"
    /\ buttons' = {}
    /\ shown' = {}

\* the user edits the text input or clicks a button that is on the page;
\* Streamlit reruns the script
Interact ==
    /\ pc = "idle"
    /\ \E k \in BOOLEAN :
       \E ev \in { Widget("text_input", 0) }
                 \cup (IF process_button THEN { Widget("process", 0) } ELSE {})
                 \cup { Widget("show_answer", i) : i \in buttons } :
       \E u \in Urls :
          /\ has_key' = k
          /\ event' = ev
          /\ youtube_url' = IF ev.widget = "text_input" THEN u ELSE youtube_url
    /\ pc' = "secrets"
    /\ stages' = << >>
    /\ audio_file' = None
    /\ upload_url' = None
    /\ posts' = 0
    /\ transcript_id' = 0
    /\ polled_id' = 0
    /\ polls' = 0
    /\ status_response' = None
    /\ ret' = None
    /\ UNCHANGED << transcript, quiz_questions, show_answers, file_exists,
                    buttons, shown, process_button >>
    /\ UNCHANGED textVars

\* lines 195-199
check_secrets ==
    /\ pc = "secrets"
    /\ IF ~has_key
       THEN ReturnEarly /\ process_button' = FALSE
       ELSE pc' = "process_button" /\ UNCHANGED << buttons, shown, process_button >>
    /\ UNCHANGED << has_key, event, youtube_url, audio_file, upload_url, transcript,
                    quiz_questions, show_answers, file_exists, stages, posts,
                    transcript_id, polled_id, polls, status_response, ret >>
    /\ UNCHANGED textVars

\* lines 201-204
process_clicked ==
    /\ pc = "process_button"
    /\ process_button' = TRUE
    /\ IF event.widget = "process"
       THEN IF youtube_url = ""
            THEN ReturnEarly
            ELSE pc' = "download" /\ UNCHANGED << buttons, shown >>
       ELSE pc' = "display" /\ UNCHANGED << buttons, shown >>
    /\ UNCHANGED << has_key, event, youtube_url, audio_file, upload_url, transcript,
                    quiz_questions, show_answers, file_exists, stages, posts,
                    transcript_id, polled_id, polls, status_response, ret >>
    /\ UNCHANGED textVars

\* download_audio and lines 209-213
download_audio ==
    /\ pc = "download"
    /\ stages' = Append(stages, "download_audio")
    /\ \E ok \in BOOLEAN :
          IF ok
          THEN /\ audio_file' = Some("podcast_audio.mp3")
               /\ file_exists' = TRUE
               /\ pc' = "upload"
               /\ UNCHANGED << buttons, shown >>
          ELSE /\ audio_file' = None
               /\ UNCHANGED file_exists
               /\ ReturnEarly
    /\ UNCHANGED << has_key, event, youtube_url, upload_url, transcript,
                    quiz_questions, show_answers, posts, transcript_id, polled_id,
                    polls, status_response, ret, process_button >>
    /\ UNCHANGED textVars

\* a wrong main(): the result of upload_audio is not checked
upload_audio_unchecked ==
    /\ pc = "upload"
    /\ stages' = Append(stages, "upload_audio")
    /\ \E r \in (IF file_exists
                 THEN { None, Some(""), Some("https://cdn.assemblyai.com/upload/1") }
                 ELSE { None }) :
          /\ upload_url' = r
          /\ pc' = "t_post" /\ UNCHANGED << buttons, shown >>
    /\ UNCHANGED << has_key, event, youtube_url, audio_file, transcript,
                    quiz_questions, show_answers, file_exists, posts, transcript_id,
                    polled_id, polls, status_response, ret, process_button >>
    /\ UNCHANGED textVars

\* upload_audio and lines 219-223
upload_audio ==
    /\ pc = "upload"
    /\ stages' = Append(stages, "upload_audio")
    /\ \E r \in (IF file_exists
                 THEN { None, Some(""), Some("https://cdn.assemblyai.com/upload/1") }
                 ELSE { None }) :
          /\ upload_url' = r
          /\ IF TruthyStr(r)
             THEN pc' = "t_post" /\ UNCHANGED << buttons, shown >>
             ELSE ReturnEarly
    /\ UNCHANGED << has_key, event, youtube_url, audio_file, transcript,
                    quiz_questions, show_answers, file_exists, posts, transcript_id,
                    polled_id, polls, status_response, ret, process_button >>
    /\ UNCHANGED textVars

\* transcribe_audio, lines 37-44: the POST of the transcription request
transcribe_post ==
    /\ pc = "t_post"
    /\ stages' = Append(stages, "transcribe_audio")
    /\ posts' = posts + 1
    /\ \/ \E id \in 1..MaxIds :
             /\ transcript_id' = id
             /\ pc' = "t_poll"
             /\ UNCHANGED ret
       \/ /\ ret' = None
          /\ pc' = "t_return"
          /\ UNCHANGED transcript_id
    /\ UNCHANGED << has_key, event, youtube_url, audio_file, upload_url, transcript,
                    quiz_questions, show_answers, file_exists, polled_id, polls,
                    status_response, buttons, shown, process_button >>
    /\ UNCHANGED textVars

\* transcribe_audio, line 49: one GET of the transcript
transcribe_poll ==
    /\ pc = "t_poll"
    /\ polls' = Min(polls + 1, MaxPolls)
    /\ polled_id' = transcript_id
    /\ \E resp \in PollResponses : status_response' = Some(resp)
    /\ pc' = "t_check"
    /\ UNCHANGED << has_key, event, youtube_url, audio_file, upload_url, transcript,
                    quiz_questions, show_answers, file_exists, stages, posts,
                    transcript_id, ret, buttons, shown, process_button >>
    /\ UNCHANGED textVars

\* a wrong polling loop: the text of any response that carries one is
\* returned, whatever the status
transcribe_check_any_text ==
    /\ pc = "t_check"
    /\ LET resp == status_response[1]
       IN  IF ~resp.ok
           THEN ret' = None /\ pc' = "t_return"
           ELSE IF ~IsNone(resp.text)
           THEN ret' = resp.text /\ pc' = "t_return"
           ELSE pc' = "t_sleep" /\ UNCHANGED ret
    /\ UNCHANGED << has_key, event, youtube_url, audio_file, upload_url, transcript,
                    quiz_questions, show_answers, file_exists, stages, posts,
                    transcript_id, polled_id, polls, status_response, buttons,
                    shown, process_button >>
    /\ UNCHANGED textVars

\* a wrong polling loop: status 'failed' is not recognised as final
transcribe_check_ignore_failed ==
    /\ pc = "t_check"
    /\ LET resp == status_response[1]
       IN  IF ~resp.ok
           THEN ret' = None /\ pc' = "t_return"
           ELSE IF resp.status = "completed"
           THEN ret' = resp.text /\ pc' = "t_return"
           ELSE pc' = "t_sleep" /\ UNCHANGED ret
    /\ UNCHANGED << has_key, event, youtube_url, audio_file, upload_url, transcript,
                    quiz_questions, show_answers, file_exists, stages, posts,
                    transcript_id, polled_id, polls, status_response, buttons,
                    shown, process_button >>
    /\ UNCHANGED textVars

\* transcribe_audio, lines 50-56 and 58-60: the poll response is examined
transcribe_check ==
    /\ pc = "t_check"
    /\ LET resp == status_response[1]
       IN  IF ~resp.ok
           THEN ret' = None /\ pc' = "t_return"
           ELSE IF resp.status = "completed"
           THEN ret' = resp.text /\ pc' = "t_return"
           ELSE IF resp.status = "failed"
           THEN ret' = None /\ pc' = "t_return"
           ELSE pc' = "t_sleep" /\ UNCHANGED ret
    /\ UNCHANGED << has_key, event, youtube_url, audio_file, upload_url, transcript,
                    quiz_questions, show_answers, file_exists, stages, posts,
                    transcript_id, polled_id, polls, status_response, buttons,
                    shown, process_button >>
    /\ UNCHANGED textVars

\* transcribe_audio, line 57: time.sleep(5), then the loop polls again
transcribe_sleep ==
    /\ pc = "t_sleep"
    /\ pc' = "t_poll"
    /\ UNCHANGED << has_key, event, youtube_url, audio_file, upload_url, transcript,
                    quiz_questions, show_answers, file_exists, stages, posts,
                    transcript_id, polled_id, polls, status_response, ret, buttons,
                    shown, process_button >>
    /\ UNCHANGED textVars

\* lines 229-233: the value returned by transcribe_audio is stored and tested
store_transcript ==
    /\ pc = "t_return"
    /\ transcript' = ret
    /\ IF TruthySeq(ret)
       THEN pc' = "generate" /\ UNCHANGED << buttons, shown >>
       ELSE ReturnEarly
    /\ UNCHANGED << has_key, event, youtube_url, audio_file, upload_url,
                    quiz_questions, show_answers, file_exists, stages, posts,
                    transcript_id, polled_id, polls, status_response, ret,
                    process_button >>
    /\ UNCHANGED textVars

\* lines 239-240
generate_quiz ==
    /\ pc = "generate"
    /\ stages' = Append(stages, "generate_questions_from_text")
    /\ LET qs == generate_questions_from_text(transcript[1])
       IN  /\ quiz_questions' = Some(qs)
           /\ show_answers' = [i \in 0..(Len(qs) - 1) |-> FALSE]
    /\ pc' = "cleanup"
    /\ UNCHANGED << has_key, event, youtube_url, audio_file, upload_url, transcript,
                    file_exists, posts, transcript_id, polled_id, polls,
                    status_response, ret, buttons, shown, process_button >>
    /\ UNCHANGED textVars

\* lines 243-244
cleanup ==
    /\ pc = "cleanup"
    /\ file_exists' = FALSE
    /\ pc' = "display"
    /\ UNCHANGED << has_key, event, youtube_url, audio_file, upload_url, transcript,
                    quiz_questions, show_answers, stages, posts, transcript_id,
                    polled_id, polls, status_response, ret, buttons, shown,
                    process_button >>
    /\ UNCHANGED textVars

\* a wrong display loop: a click on any "Show Answer" button reveals every answer
display_reveal_all ==
    /\ pc = "display"
    /\ LET n == IF TruthySeq(quiz_questions) THEN Len(quiz_questions[1]) ELSE 0
           clicked == { i \in 0..(n - 1) : event = Widget("show_answer", i) }
           sa == [i \in (DOMAIN show_answers) \cup (IF clicked = {} THEN {} ELSE 0..(n - 1)) |->
                     IF clicked # {} /\ i \in 0..(n - 1) THEN TRUE ELSE show_answers[i]]
       IN  /\ show_answers' = sa
           /\ buttons' = 0..(n - 1)
           /\ shown' = { i \in 0..(n - 1) : Revealed(sa, i) }
    /\ pc' = "idle"
    /\ UNCHANGED << has_key, event, youtube_url, audio_file, upload_url, transcript,
                    quiz_questions, file_exists, stages, posts, transcript_id,
                    polled_id, polls, status_response, ret, process_button >>
    /\ UNCHANGED textVars

\* lines 247-275: the transcript and the quiz are rendered; the button of
\* question idx returns True in the run its click triggered
display ==
    /\ pc = "display"
    /\ LET n == IF TruthySeq(quiz_questions) THEN Len(quiz_questions[1]) ELSE 0
           clicked == { i \in 0..(n - 1) : event = Widget("show_answer", i) }
           sa == [i \in (DOMAIN show_answers) \cup clicked |->
                     IF i \in clicked THEN TRUE ELSE show_answers[i]]
       IN  /\ show_answers' = sa
           /\ buttons' = 0..(n - 1)
           /\ shown' = { i \in 0..(n - 1) : Revealed(sa, i) }
    /\ pc' = "idle"
    /\ UNCHANGED << has_key, event, youtube_url, audio_file, upload_url, transcript,
                    quiz_questions, file_exists, stages, posts, transcript_id,
                    polled_id, polls, status_response, ret, process_button >>
    /\ UNCHANGED textVars

Init ==
    /\ AppInit
    /\ text = << >>
    /\ num_topics = 0
    /\ topics = None
    /\ questions = None
    /\ fpc = "unused"

Next ==
    \/ Interact
    \/ check_secrets
    \/ process_clicked
    \/ download_audio
    \/ upload_audio
    \/ transcribe_post
    \/ transcribe_poll
    \/ transcribe_check
    \/ transcribe_sleep
    \/ store_transcript
    \/ generate_quiz
    \/ cleanup
    \/ display

Spec == Init /\ [][Next]_vars

\* transcribe_audio, once called, keeps executing: its loop has no blocking
\* call other than the requests and the sleep, which are steps of the model
LiveSpec ==
    /\ Init
    /\ [][Next]_vars
    /\ WF_vars(transcribe_poll)
    /\ WF_vars(transcribe_check)
    /\ WF_vars(transcribe_sleep)

TextInit ==
    /\ AppInit
    /\ has_key = TRUE
    /\ text \in Texts
    /\ num_topics \in 0..MaxNumTopics
    /\ topics = None
    /\ questions = None
    /\ fpc = "input"

ApplyExtract ==
    /\ fpc = "input"
    /\ topics' = Some(extract_key_topics(text, num_topics))
    /\ fpc' = "topics"
    /\ UNCHANGED << text, num_topics, questions >>
    /\ UNCHANGED appVars

ApplyGenerate ==
    /\ fpc = "topics"
    /\ questions' = Some(generate_questions_from_text(text))
    /\ fpc' = "done"
    /\ UNCHANGED << text, num_topics, topics >>
    /\ UNCHANGED appVars

TextNext == ApplyExtract \/ ApplyGenerate

TextSpec == TextInit /\ [][TextNext]_vars

----------------------------------------------------------------------------
(* Properties                                                              *)

StageOrder ==
    << "download_audio", "upload_audio", "transcribe_audio",
       "generate_questions_from_text" >>

Started(stage) == \E i \in 1..Len(stages) : stages[i] = stage

\* C1: in a Process Podcast run the stages are called in the order
\* download_audio, upload_audio, transcribe_audio,
\* generate_questions_from_text, each at most once and each only after every
\* earlier stage returned a truthy value; without the API key or with an
\* empty URL no stage is called.
C1_StagesInOrder ==
    /\ Len(stages) <= Len(StageOrder)
    /\ \A i \in 1..Len(stages) : stages[i] = StageOrder[i]
    /\ Len(stages) > 0 => event.widget = "process"
    /\ Started("upload_audio") => TruthyStr(audio_file)
    /\ Started("transcribe_audio") => TruthyStr(upload_url)
    /\ Started("generate_questions_from_text") => TruthySeq(transcript)
    /\ (pc \in {"t_poll", "t_check", "t_sleep", "t_return"}) => Started("transcribe_audio")
    /\ (~has_key \/ youtube_url = "") => stages = << >>

\* a run that called all four stages
C1_Witness ==
    /\ stages = StageOrder
    /\ pc = "idle"

InTranscribe == pc \in {"t_poll", "t_check", "t_sleep", "t_return"}

\* C2: one call of transcribe_audio sends exactly one POST and polls the id
\* that POST returned; a value other than None is returned only as the text
\* of the poll response whose status is 'completed', a 'failed' response, a
\* failed poll and a failed POST all make it return None.
C2_SinglePostCompletedText ==
    /\ InTranscribe => posts = 1
    /\ (InTranscribe /\ polls > 0) => polled_id = transcript_id
    /\ pc = "t_return" =>
         IF polls = 0
         THEN IsNone(ret) /\ IsNone(status_response)
         ELSE LET resp == status_response[1]
              IN  /\ (resp.ok /\ resp.status = "completed") => ret = resp.text
                  /\ (resp.ok /\ resp.status = "failed") => IsNone(ret)
                  /\ ~resp.ok => IsNone(ret)
                  /\ ~IsNone(ret) => (resp.ok /\ resp.status = "completed")

\* a text returned from a 'completed' response that came after other polls
C2_Witness ==
    /\ pc = "t_return"
    /\ polls >= 2
    /\ TruthySeq(ret)
    /\ status_response[1].status = "completed"

Terminal(resp) == ~resp.ok \/ resp.status \in {"completed", "failed"}

\* C3: once a poll is answered with 'completed' or 'failed', or fails,
\* transcribe_audio returns; on every other status it sleeps and polls
\* again, however many polls were made, and it returns at no other point of
\* the loop.
C3_PollingTerminates ==
    /\ (pc = "t_check" /\ Terminal(status_response[1])) ~> (pc = "t_return")
    /\ [][(pc = "t_check" /\ ~Terminal(status_response[1])) => pc' = "t_sleep"]_vars
    /\ [][pc = "t_sleep" => pc' = "t_poll"]_vars
    /\ [][(pc = "t_check" /\ pc' = "t_return") => Terminal(status_response[1])]_vars
    /\ [][(pc # "t_return" /\ pc' = "t_return") => pc \in {"t_post", "t_check"}]_vars

\* the loop is still polling after the counter saturated, on a status that
\* is neither 'completed' nor 'failed'
C3_Witness ==
    /\ pc = "t_sleep"
    /\ polls = MaxPolls
    /\ status_response[1].status = "error"

\* the words of the lower-cased, punctuation-stripped text
CleanWords(t) ==
    split(SelectSeq(lower(t), LAMBDA c : IsWordChar(c) \/ IsSpace(c)))

Qualifying(cw) ==
    { w \in Range(cw) : Len(w) > 3 /\ w \notin stop_words }

Occurrences(cw, w) ==
    Cardinality({ i \in 1..Len(cw) : cw[i] = w })

FirstOccurrence(cw, w) ==
    CHOOSE i \in 1..Len(cw) :
        /\ cw[i] = w
        /\ \A j \in 1..(i - 1) : cw[j] # w

\* C4: extract_key_topics(text, n) returns at most n distinct qualifying
\* words, in non-increasing order of occurrence count with ties in order of
\* first occurrence; no qualifying word left out occurs more often than a
\* returned one, and fewer than n are returned only if fewer than n exist.
C4_TopicsByFrequency ==
    fpc \in {"topics", "done"} =>
        LET r  == topics[1]
            cw == CleanWords(text)
            Q  == Qualifying(cw)
        IN  /\ Len(r) <= num_topics
            /\ \A i \in 1..Len(r) : r[i] \in Q
            /\ \A i, j \in 1..Len(r) :
                  i < j =>
                     /\ r[i] # r[j]
                     /\ \/ Occurrences(cw, r[i]) > Occurrences(cw, r[j])
                        \/ /\ Occurrences(cw, r[i]) = Occurrences(cw, r[j])
                           /\ FirstOccurrence(cw, r[i]) < FirstOccurrence(cw, r[j])
            /\ \A w \in Q \ Range(r) :
                  \A i \in 1..Len(r) : Occurrences(cw, w) <= Occurrences(cw, r[i])
            /\ Len(r) < num_topics => Cardinality(Q) < num_topics
            /\ Len(r) = Min(num_topics, Cardinality(Q))

\* three topics returned, the first more frequent than the second, the
\* second and third tied, and a qualifying word left out
C4_Witness ==
    /\ fpc = "topics"
    /\ num_topics = 3
    /\ Len(topics[1]) = 3
    /\ LET cw == CleanWords(text)
       IN  /\ Occurrences(cw, topics[1][1]) > Occurrences(cw, topics[1][2])
           /\ Occurrences(cw, topics[1][2]) = Occurrences(cw, topics[1][3])
           /\ Qualifying(cw) \ Range(topics[1]) # {}
           /\ Range(cw) \cap stop_words # {}
    /\ text # lower(text)

\* C5: for every non-empty transcript generate_questions_from_text returns
\* at least 3 question items.
C5_AtLeastThreeQuestions ==
    (fpc = "done" /\ Len(text) > 0) => Len(questions[1]) >= MinQuestions

\* C6: show_answers[idx] turns True only in the display of a run triggered
\* by the click on the button of question idx, and no other entry changes
\* then; a revealed answer stays revealed in every step but the quiz
\* generation of a Process Podcast run, which is the only step that resets
\* show_answers, to False on exactly the indices of the new quiz; the page
\* shows the answers of exactly the revealed questions.
C6_ShowAnswers ==
    /\ [][\A i \in DOMAIN show_answers' :
             (Revealed(show_answers', i) /\ ~Revealed(show_answers, i))
                => (pc = "display" /\ event = Widget("show_answer", i) /\ i \in buttons)]_vars
    /\ [][\A i \in DOMAIN show_answers :
             (Revealed(show_answers, i) /\ ~Revealed(show_answers', i))
                => (pc = "generate" /\ event.widget = "process")]_vars
    /\ [][pc = "generate" =>
             /\ DOMAIN show_answers' = 0..(Len(quiz_questions'[1]) - 1)
             /\ \A i \in DOMAIN show_answers' : show_answers'[i] = FALSE]_vars
    /\ [][(pc # "generate" /\ pc # "display") => show_answers' = show_answers]_vars
    /\ [][(pc = "display" /\ pc' = "idle") =>
             shown' = { i \in DOMAIN show_answers' : Revealed(show_answers', i) }]_vars

\* two answers revealed by two clicks, a third question still hidden
C6_Witness ==
    /\ pc = "idle"
    /\ event.widget = "show_answer"
    /\ Cardinality(shown) = 2
    /\ \E i \in buttons : i \notin shown

\* C7: when a Process Podcast run whose download produced podcast_audio.mp3
\* ends, the file no longer exists.
C7_AudioRemoved ==
    (pc = "idle" /\ Started("download_audio") /\ TruthyStr(audio_file)) => ~file_exists

====
